---- MODULE Spec2Model ----
(***************************************************************************)
(* The two sequence generators of code/detour-group-theory.cpp:            *)
(*   Z256Generator          additive recurrence modulo 256                  *)
(*   SerialNumberGenerator  LCG modulo 676000 decomposed into mixed-radix   *)
(*                          digits (two letters, three decimal digits)      *)
(* Characters are modelled by their ASCII codes, an identifier by the      *)
(* sequence of the codes of its characters ("JS566" is <<74,83,53,54,54>>).*)
(***************************************************************************)
EXTENDS Integers, Sequences, FiniteSets

VARIABLES
    class,   \* the generator class the instances were constructed from
    state_,  \* Z256Generator::state_, per instance
    lcg_,    \* SerialNumberGenerator::lcg_ (the engine's state), per instance
    ret,     \* the value the last call to next() returned, per instance
    calls,   \* ghost: number of calls to next() made so far, per instance
    hist,    \* ghost: the leading outputs of each instance, in call order
    limit,   \* number of calls the driver makes on each instance
    arg,     \* the value handed to the digit decomposition (DigitSpec)
    res      \* the decomposition's locals: the string built, the value left

vars == <<class, state_, lcg_, ret, calls, hist, limit, arg, res>>

----------------------------------------------------------------------------
(* Program constants *)

Z256Inc     == 191
Z256Modulus == 256
Z256Seed    == 42

LcgA    == 261
LcgC    == 1
LcgM    == 676000
LcgSeed == 123456

LetterBase == 26
DigitBase  == 10
CharA      == 65
Char0      == 48

(* Bounds of the model *)

\* Number of leading identifiers of a SerialNumberGenerator the history keeps
\* (a Z256Generator's history keeps every output), number of calls made past
\* the last period in a single-instance run, and number of calls made on each
\* instance in a two-instance run.
HistLen == 8

\* Number of periods a single Z256Generator is called through (a single
\* SerialNumberGenerator is called through one).
Z256Periods == 2

----------------------------------------------------------------------------
(* Machine arithmetic *)

\* The % of C++ on int: the remainder of the division truncated toward zero.
CRem(a, b) == IF a >= 0 THEN a % b ELSE -((-a) % b)

\* The / of C++ on int: truncated toward zero.
CQuot(a, b) == IF a >= 0 THEN a \div b ELSE -((-a) \div b)

\* static_cast<int> of an unsigned value (32-bit int, two's complement): a
\* value up to INT_MAX is kept, a larger one wraps around by 2^32.
ToInt(v) == IF v <= 2147483647 THEN v ELSE ((v - 2147483647) - 2147483647) - 2

\* Conversion of an int to the char pushed on a std::string (8-bit signed).
ToChar(c) == ((c + 128) % 256) - 128

\* std::div(val, base)
StdDiv(val, base) == [quot |-> CQuot(val, base), rem |-> CRem(val, base)]

----------------------------------------------------------------------------
(* Z256Generator *)

Z256StepEven(s) == CRem(s + 192, Z256Modulus)

Z256StepHalf(s) == CRem(s + 128, Z256Modulus)

\* (state_ + 191) % 256
Z256Step(s) == CRem(s + Z256Inc, Z256Modulus)

Z256CallStale(s) == [state |-> Z256Step(s), value |-> s]

\* next(): the register is advanced, and the new register is what is returned.
Z256Call(s) == [state |-> Z256Step(s), value |-> Z256Step(s)]

----------------------------------------------------------------------------
(* SerialNumberGenerator *)

LcgStepNoInc(x) == (LcgA * x) % LcgM

LcgStepBadMul(x) == (21 * x + LcgC) % LcgM

\* The transition of linear_congruential_engine<uint_fast32_t, 261, 1, 676000>.
\* LcgA * x + LcgC stays below 2^32 for every x < LcgM, so no width is lost.
LcgStep(x) == (LcgA * x + LcgC) % LcgM

\* The engine seeded with s: s mod m, or 1 when both c mod m and s mod m are 0.
LcgInit(s) == IF LcgC % LcgM = 0 /\ s % LcgM = 0 THEN 1 ELSE s % LcgM

LcgCallTwice(x) == [state |-> LcgStep(LcgStep(x)), value |-> LcgStep(x)]

\* lcg_(): the engine advances one step and returns its new state.
LcgCall(x) == [state |-> LcgStep(x), value |-> LcgStep(x)]

add_digitNoCarry(serial, val, base, offset) ==
    LET r == StdDiv(val, base)
    IN  [serial |-> Append(serial, ToChar(offset + r.rem)), value |-> val]

add_digitFront(serial, val, base, offset) ==
    LET r == StdDiv(val, base)
    IN  [serial |-> <<ToChar(offset + r.rem)>> \o serial, value |-> r.quot]

\* The lambda add_digit: the character offset + remainder is appended to the
\* string (captured by reference, here passed and returned), and the quotient
\* is returned.
add_digit(serial, val, base, offset) ==
    LET r == StdDiv(val, base)
    IN  [serial |-> Append(serial, ToChar(offset + r.rem)), value |-> r.quot]

\* The statement  value = add_digit(value, base, offset);  of next(), run on
\* the locals d (the string serial and the int value), which are evaluated
\* once.
AddDigitStmt(d, base, offset) ==
    CHOOSE e \in {add_digit(s.serial, s.value, base, offset) : s \in {d}} : TRUE

DecomposeBadRadix(value) ==
    AddDigitStmt(
    AddDigitStmt(
    AddDigitStmt(
    AddDigitStmt(
    AddDigitStmt([serial |-> <<>>, value |-> value],
                 LetterBase, CharA),
                 LetterBase, CharA),
                 LetterBase, Char0),
                 DigitBase, Char0),
                 DigitBase, Char0)

\* The body of next() after the draw: from the empty string and the value
\* drawn, the five add_digit statements in order (innermost first, radices 26,
\* 26, 10, 10, 10); the result holds the string built and the value left after
\* the fifth division.
Decompose(value) ==
    AddDigitStmt(
    AddDigitStmt(
    AddDigitStmt(
    AddDigitStmt(
    AddDigitStmt([serial |-> <<>>, value |-> value],
                 LetterBase, CharA),
                 LetterBase, CharA),
                 DigitBase, Char0),
                 DigitBase, Char0),
                 DigitBase, Char0)

----------------------------------------------------------------------------
(* Instances *)

StoreShared(f, i, v) == [j \in DOMAIN f |-> v]

\* Assignment to a non-static data member of instance i: the members of the
\* other instances are other objects.
Store(f, i, v) == [f EXCEPT ![i] = v]

\* Number of leading outputs the history keeps.
HistCap(c) == IF c = "Z256Generator" THEN Z256Periods * Z256Modulus + HistLen ELSE HistLen

\* Number of calls the driver makes on a single instance of class c.
Run(c) == IF c = "Z256Generator" THEN Z256Periods * Z256Modulus + HistLen ELSE LcgM + HistLen

Record(h, c, v) == IF Len(h) < HistCap(c) THEN Append(h, v) ELSE h

\* Construction of the instances I of class c, on which the driver makes n
\* calls each.
Construct(c, I, n) ==
    /\ class = c
    /\ state_ = [i \in I |-> Z256Seed]
    /\ lcg_ = [i \in I |-> LcgInit(LcgSeed)]
    /\ ret = [i \in I |-> IF c = "Z256Generator" THEN -1 ELSE <<>>]
    /\ calls = [i \in I |-> 0]
    /\ hist = [i \in I |-> <<>>]
    /\ limit = n
    /\ arg = 0
    /\ res = [serial |-> <<>>, value |-> 0]

\* One generator, called through its period and HistLen calls more.
Init ==
    \E c \in {"Z256Generator", "SerialNumberGenerator"} :
        Construct(c, {1}, Run(c))

\* Two generators of the same class, called in any order.
PairInit ==
    \E c \in {"Z256Generator", "SerialNumberGenerator"} :
        Construct(c, {1, 2}, HistLen)

\* Z256Generator::next() on instance i
Z256Next(i) ==
    /\ class = "Z256Generator"
    /\ LET r == Z256Call(state_[i])
       IN  /\ state_' = Store(state_, i, r.state)
           /\ ret' = [ret EXCEPT ![i] = r.value]
           /\ hist' = [hist EXCEPT ![i] = Record(@, class, ret'[i])]
    /\ calls' = [calls EXCEPT ![i] = @ + 1]
    /\ UNCHANGED <<class, lcg_, limit, arg, res>>

\* SerialNumberGenerator::next() on instance i
SerialNext(i) ==
    /\ class = "SerialNumberGenerator"
    /\ LET r == LcgCall(lcg_[i])
       IN  /\ lcg_' = Store(lcg_, i, r.state)
           /\ ret' = [ret EXCEPT ![i] = Decompose(ToInt(r.value)).serial]
           /\ hist' = [hist EXCEPT ![i] = Record(@, class, ret'[i])]
    /\ calls' = [calls EXCEPT ![i] = @ + 1]
    /\ UNCHANGED <<class, state_, limit, arg, res>>

\* The driver calls next() on one of its Z256Generator instances.
Z256Test == \E i \in DOMAIN calls : calls[i] < limit /\ Z256Next(i)

\* The driver calls next() on one of its SerialNumberGenerator instances.
SerialTest == \E i \in DOMAIN calls : calls[i] < limit /\ SerialNext(i)

Next == Z256Test \/ SerialTest

Spec == Init /\ [][Next]_vars

PairSpec == PairInit /\ [][Next]_vars

----------------------------------------------------------------------------
(* The digit decomposition alone, on every value the engine can return *)

DigitInit ==
    /\ class = "none"
    /\ state_ = <<>>
    /\ lcg_ = <<>>
    /\ ret = <<>>
    /\ calls = <<>>
    /\ hist = <<>>
    /\ limit = 0
    /\ arg \in 0 .. (LcgM - 1)
    /\ res = [serial |-> <<>>, value |-> arg]

DigitNext ==
    /\ res.serial = <<>>
    /\ res' = Decompose(ToInt(arg))
    /\ UNCHANGED <<class, state_, lcg_, ret, calls, hist, limit, arg>>

DigitSpec == DigitInit /\ [][DigitNext]_vars

----------------------------------------------------------------------------
(* Vocabulary of the properties *)

\* ASCII 'A'..'Z' and '0'..'9'
UpperCase == 65 .. 90
DecDigit  == 48 .. 57

\* Two uppercase letters followed by three decimal digits.
WellFormed(s) ==
    /\ Len(s) = 5
    /\ s[1] \in UpperCase /\ s[2] \in UpperCase
    /\ s[3] \in DecDigit /\ s[4] \in DecDigit /\ s[5] \in DecDigit

\* The value an identifier denotes, read low-order digit first: a left inverse
\* of the decomposition exists exactly when distinct values give distinct
\* identifiers.
FromSerial(s) ==
    (s[1] - 65) + 26 * ((s[2] - 65) + 26 * ((s[3] - 48) + 10 * ((s[4] - 48) + 10 * (s[5] - 48))))

IsZ256 == class = "Z256Generator"
IsSerial == class = "SerialNumberGenerator"

----------------------------------------------------------------------------
(* Properties *)

\* C1: the 256 values a fresh Z256Generator returns in its first 256 calls are
\* pairwise distinct and all in [0, 256): every integer 0..255 is returned
\* exactly once.
C1_Z256FullCycle ==
    IsZ256 =>
        \A i \in DOMAIN calls :
            calls[i] <= 256 =>
                /\ Len(hist[i]) = calls[i]
                /\ \A j \in 1 .. calls[i] : hist[i][j] \in 0 .. 255
                /\ \A j, k \in 1 .. calls[i] : j < k => hist[i][j] /= hist[i][k]
                /\ calls[i] = 256 => {hist[i][j] : j \in 1 .. 256} = 0 .. 255

C1_Witness ==
    /\ IsZ256
    /\ calls[1] = 256
    /\ Cardinality({hist[1][j] : j \in 1 .. 256}) = 256

\* C2: the 676000 identifiers a fresh SerialNumberGenerator returns in its
\* first 676000 calls are pairwise distinct, each two letters 'A'..'Z' then
\* three digits '0'..'9' in extraction order.  Pairwise distinctness is stated
\* as: every identifier denotes the engine state it was made from (so two
\* identifiers are equal only if the two states are), the engine state is back
\* at the seed after 676000 calls and not before (so, the recurrence being a
\* function of the state, no state occurs twice among the 676000), and
\* directly against each of the HistLen leading identifiers.
C2_SerialDistinct ==
    IsSerial =>
        \A i \in DOMAIN calls :
            (calls[i] >= 1 /\ calls[i] <= 676000) =>
                /\ WellFormed(ret[i])
                /\ FromSerial(ret[i]) = lcg_[i]
                /\ calls[i] < 676000 => lcg_[i] /= 123456
                /\ calls[i] = 676000 => lcg_[i] = 123456
                /\ \A k \in 1 .. Len(hist[i]) : k < calls[i] => ret[i] /= hist[i][k]

C2_Witness ==
    /\ IsSerial
    /\ calls[1] = 676000
    /\ WellFormed(ret[1])
    /\ ret[1] /= hist[1][1]

\* C3: the first three calls on a fresh Z256Generator return 233, 168, 103:
\* each call sets the register, 42 at first, to (register + 191) mod 256 and
\* returns the new register.
C3_Z256FirstThree ==
    IsZ256 =>
        \A i \in DOMAIN calls :
            /\ calls[i] = 0 => state_[i] = 42
            /\ calls[i] >= 1 => hist[i][1] = 233
            /\ calls[i] >= 2 => hist[i][2] = 168
            /\ calls[i] >= 3 => hist[i][3] = 103
            /\ calls[i] \in 1 .. 3 => (ret[i] = hist[i][calls[i]] /\ state_[i] = ret[i])

C3_Witness ==
    /\ IsZ256
    /\ calls[1] = 3
    /\ hist[1] = <<233, 168, 103>>

\* C4: the recurrence x := (261 x + 1) mod 676000 from 123456 has period
\* exactly 676000: every value drawn is in [0, 676000) and the state is 123456
\* again after 676000 steps and after no smaller positive number of steps
\* (hence, a state having one successor, the 676000 values drawn are pairwise
\* distinct and are all of [0, 676000)).
C4_LcgFullPeriod ==
    IsSerial =>
        \A i \in DOMAIN calls :
            /\ lcg_[i] \in 0 .. 675999
            /\ (lcg_[i] = 123456) <=> (calls[i] % 676000 = 0)

C4_Witness ==
    /\ IsSerial
    /\ calls[1] = 676000
    /\ lcg_[1] = 123456

\* C6: the first identifier of a fresh SerialNumberGenerator is "JS566": the
\* decomposition, low-order digit first with radices 26, 26, 10, 10, 10 and
\* offsets 'A', 'A', '0', '0', '0', of (261 * 123456 + 1) mod 676000 = 450017.
C6_SerialFirst ==
    IsSerial =>
        \A i \in DOMAIN calls :
            /\ calls[i] = 0 => lcg_[i] = 123456
            /\ calls[i] >= 1 => hist[i][1] = <<74, 83, 53, 54, 54>>
            /\ calls[i] = 1 => (lcg_[i] = 450017 /\ ret[i] = <<74, 83, 53, 54, 54>>)

C6_Witness ==
    /\ IsSerial
    /\ calls[1] = 1
    /\ ret[1] = <<74, 83, 53, 54, 54>>

\* C5: the k-th value a generator returns depends on k alone: for two fresh
\* instances of one class called in any order, the k-th output of the one is
\* the k-th output of the other, and a call on one instance leaves the state
\* of the other unchanged.
C5_InstancesAgree ==
    [][ /\ \A k \in 1 .. Len(hist'[1]) :
               k <= Len(hist'[2]) => hist'[1][k] = hist'[2][k]
        /\ \A i, j \in DOMAIN calls :
               (calls'[i] /= calls[i] /\ j /= i) =>
                   /\ state_'[j] = state_[j]
                   /\ lcg_'[j] = lcg_[j]
                   /\ ret'[j] = ret[j]
                   /\ calls'[j] = calls[j] ]_vars

C5_Witness ==
    /\ DOMAIN calls = {1, 2}
    /\ calls[1] = 2
    /\ calls[2] = 5
    /\ hist[1] = SubSeq(hist[2], 1, 2)
    /\ ret[1] /= ret[2]

\* C7: no value is returned twice within one period, from any point of the
\* sequence: two calls fewer than 256 (Z256Generator) or 676000
\* (SerialNumberGenerator) calls apart return different values.  The history
\* holds every output of a Z256Generator and the HistLen leading identifiers
\* of a SerialNumberGenerator, whose later windows are covered by its state:
\* an identifier denotes the engine state, and two states a multiple of 676000
\* calls apart, and only those, are equal to the seed's.
C7_NoRepeatWithinPeriod ==
    \A i \in DOMAIN calls :
        /\ \A k \in 1 .. Len(hist[i]) :
               (k < calls[i] /\ calls[i] - k < (IF IsZ256 THEN 256 ELSE 676000)) =>
                   ret[i] /= hist[i][k]
        /\ (IsSerial /\ calls[i] >= 1) =>
               /\ FromSerial(ret[i]) = lcg_[i]
               /\ lcg_[i] = 123456 => calls[i] % 676000 = 0

C7_Witness ==
    /\ IsSerial
    /\ calls[1] = 676001
    /\ Len(hist[1]) >= 2
    /\ ret[1] /= hist[1][2]
    /\ ret[1] = hist[1][1]

\* C8: the digit decomposition is a bijection from [0, 676000) onto the
\* identifiers of two uppercase letters and three decimal digits: every value
\* gives such an identifier, the value is recovered from its identifier (so
\* distinct values give distinct identifiers), there are as many such
\* identifiers as values, and the quotient left after the fifth division is 0.
C8_DecomposeBijection ==
    /\ Cardinality(UpperCase) * Cardinality(UpperCase) * Cardinality(DecDigit)
           * Cardinality(DecDigit) * Cardinality(DecDigit) = 676000
    /\ arg \in 0 .. 675999
    /\ res.serial /= <<>> =>
           /\ WellFormed(res.serial)
           /\ FromSerial(res.serial) = arg
           /\ res.value = 0

C8_Witness ==
    /\ arg = 675999
    /\ res.serial = <<90, 90, 57, 57, 57>>
    /\ res.value = 0

\* C9: the state of a generator is its previous output and advances by exactly
\* one step of the recurrence per call: after a call the register of a
\* Z256Generator is the integer returned, the engine state of a
\* SerialNumberGenerator is the value whose decomposition is the identifier
\* returned, and the new state is one step, not none and not two, from the old.
C9_OneStepPerCall ==
    [][ \A i \in DOMAIN calls :
            calls'[i] = calls[i] + 1 =>
                /\ IsZ256 =>
                       /\ state_'[i] = ret'[i]
                       /\ state_'[i] = (state_[i] + 191) % 256
                       /\ state_'[i] /= state_[i]
                /\ IsSerial =>
                       /\ Decompose(lcg_'[i]).serial = ret'[i]
                       /\ FromSerial(ret'[i]) = lcg_'[i]
                       /\ lcg_'[i] = (261 * lcg_[i] + 1) % 676000
                       /\ lcg_'[i] /= lcg_[i] ]_vars

C9_Witness ==
    /\ IsSerial
    /\ calls[1] = 2
    /\ lcg_[1] = (261 * 450017 + 1) % 676000
    /\ FromSerial(ret[1]) = lcg_[1]

\* C10: the generators have no terminal state and their output is periodic:
\* next() is enabled in every state, the (n + 256)-th output of a
\* Z256Generator is its n-th, its register being 42 again after exactly 256
\* calls, and the (n + 676000)-th identifier of a SerialNumberGenerator is its
\* n-th.
C10_Periodic ==
    \A i \in DOMAIN calls :
        /\ ENABLED (Z256Next(i) \/ SerialNext(i))
        /\ \A n \in 1 .. Len(hist[i]) :
               calls[i] = n + (IF IsZ256 THEN 256 ELSE 676000) => ret[i] = hist[i][n]
        /\ IsZ256 => ((state_[i] = 42) <=> (calls[i] % 256 = 0))

C10_Witness ==
    /\ IsZ256
    /\ calls[1] = 256 + 3
    /\ ret[1] = 103
    /\ ENABLED Z256Next(1)

====
